---- MODULE Spec2Model ----
(***************************************************************************)
(* Model of backend/lambda_functions/contact_form.py: the contact-form     *)
(* submission pipeline (parse, validate, build record, store, notify       *)
(* staff, auto-reply, respond).                                            *)
(*                                                                         *)
(* Text is a sequence of runs [t |-> token, n |-> count]: the token (a     *)
(* non-empty sequence of one-character strings) repeated n >= 1 times.     *)
(* The empty text is <<>>.  This keeps a 10001-character message small     *)
(* while every text operation works on the characters it denotes.          *)
(***************************************************************************)
EXTENDS Integers, Sequences, FiniteSets, TLC

----------------------------------------------------------------------------
(* Bounds of the model *)

NumReq == 2
NumIds == 2

----------------------------------------------------------------------------
(* Characters *)

LowerSeq ==
  << "a","b","c","d","e","f","g","h","i","j","k","l","m",
     "n","o","p","q","r","s","t","u","v","w","x","y","z" >>

UpperSeq ==
  << "A","B","C","D","E","F","G","H","I","J","K","L","M",
     "N","O","P","Q","R","S","T","U","V","W","X","Y","Z" >>

Letters == { LowerSeq[i] : i \in 1..26 } \cup { UpperSeq[i] : i \in 1..26 }

Digits == { "0","1","2","3","4","5","6","7","8","9" }

LocalChars == Letters \cup Digits \cup { ".", "_", "%", "+", "-" }

DomainChars == Letters \cup Digits \cup { ".", "-" }

Whitespace == { " ", "\t", "\n", "\r" }

----------------------------------------------------------------------------
(* Text operations *)

Lit(cs) == [ i \in 1..Len(cs) |-> [ t |-> << cs[i] >>, n |-> 1 ] ]

Rep(c, k) == IF k = 0 THEN << >> ELSE << [ t |-> << c >>, n |-> k ] >>

RunLen(r) == Len(r.t) * r.n

RECURSIVE StrLen(_)
StrLen(s) == IF s = << >> THEN 0 ELSE RunLen(Head(s)) + StrLen(Tail(s))

RECURSIVE Flat(_)
Flat(s) ==
  IF s = << >> THEN << >>
  ELSE LET r == Head(s)
       IN  r.t \o Flat(IF r.n = 1 THEN Tail(s)
                       ELSE << [ t |-> r.t, n |-> r.n - 1 ] >> \o Tail(s))

ReverseSeq(q) == [ i \in 1..Len(q) |-> q[Len(q) + 1 - i] ]

ReverseStr(s) ==
  [ i \in 1..Len(s) |->
      [ t |-> ReverseSeq(s[Len(s) + 1 - i].t), n |-> s[Len(s) + 1 - i].n ] ]

RECURSIVE LStrip(_)
LStrip(s) ==
  IF s = << >> THEN << >>
  ELSE LET r == Head(s)
           keep == { i \in 1..Len(r.t) : r.t[i] \notin Whitespace }
       IN  IF keep = { } THEN LStrip(Tail(s))
           ELSE LET k == CHOOSE i \in keep : \A j \in keep : i <= j
                IN  IF k = 1 THEN s
                    ELSE << [ t |-> SubSeq(r.t, k, Len(r.t)), n |-> 1 ] >>
                         \o (IF r.n > 1 THEN << [ t |-> r.t, n |-> r.n - 1 ] >>
                             ELSE << >>)
                         \o Tail(s)

strip(s) == ReverseStr(LStrip(ReverseStr(LStrip(s))))

RECURSIVE Take(_, _)
Take(s, k) ==
  IF s = << >> \/ k <= 0 THEN << >>
  ELSE LET r == Head(s)
       IN  IF RunLen(r) <= k
           THEN << r >> \o Take(Tail(s), k - RunLen(r))
           ELSE LET full == k \div Len(r.t)
                    rem  == k % Len(r.t)
                IN  (IF full > 0 THEN << [ t |-> r.t, n |-> full ] >> ELSE << >>)
                    \o (IF rem > 0
                        THEN << [ t |-> SubSeq(r.t, 1, rem), n |-> 1 ] >>
                        ELSE << >>)

(* text[:k]: a negative k counts from the end of the text *)
Truncate(s, k) == Take(s, IF k < 0 THEN StrLen(s) + k ELSE k)

RECURSIVE ReplaceTok(_, _, _)
ReplaceTok(tok, old, new) ==
  IF tok = << >> THEN << >>
  ELSE (IF Head(tok) = old THEN new ELSE << Head(tok) >>)
       \o ReplaceTok(Tail(tok), old, new)

replace(s, old, new) ==
  [ i \in 1..Len(s) |-> [ t |-> ReplaceTok(s[i].t, old, new), n |-> s[i].n ] ]

LowerChar(c) ==
  IF \E i \in 1..26 : UpperSeq[i] = c
  THEN LowerSeq[CHOOSE i \in 1..26 : UpperSeq[i] = c]
  ELSE c

lower(s) ==
  [ i \in 1..Len(s) |->
      [ t |-> [ j \in 1..Len(s[i].t) |-> LowerChar(s[i].t[j]) ], n |-> s[i].n ] ]

----------------------------------------------------------------------------
(* validate_email, sanitize_input *)

EmailPattern(x) ==
  \E at \in 1..Len(x) : \E dot \in 1..Len(x) :
     /\ x[at] = "@"
     /\ at >= 2
     /\ \A i \in 1..(at - 1) : x[i] \in LocalChars
     /\ x[dot] = "."
     /\ dot >= at + 2
     /\ \A i \in (at + 1)..(dot - 1) : x[i] \in DomainChars
     /\ Len(x) - dot >= 2
     /\ \A i \in (dot + 1)..Len(x) : x[i] \in Letters

(* A validator that looks for the pattern anywhere in the text (re.search *)
(* without the anchors)                                                   *)
validate_email_unanchored(email) ==
  LET x == Flat(email)
  IN  \E i \in 1..Len(x) : \E j \in i..Len(x) : EmailPattern(SubSeq(x, i, j))

validate_email(email) ==
  LET x == Flat(email)
  IN  \/ EmailPattern(x)
      \/ /\ Len(x) > 0
         /\ x[Len(x)] = "\n"
         /\ EmailPattern(SubSeq(x, 1, Len(x) - 1))

(* A sanitizer that escapes the ampersand last, re-escaping the entities *)
sanitize_input_amp_last(text, max_length) ==
  IF text = << >> THEN << >>
  ELSE LET t0 == Truncate(text, max_length)
           t1 == replace(t0, "<", << "&", "l", "t", ";" >>)
           t2 == replace(t1, ">", << "&", "g", "t", ";" >>)
           t3 == replace(t2, "\"", << "&", "q", "u", "o", "t", ";" >>)
           t4 == replace(t3, "'", << "&", "#", "x", "2", "7", ";" >>)
           t5 == replace(t4, "&", << "&", "a", "m", "p", ";" >>)
       IN  t5

(* A sanitizer that forgets the apostrophe *)
sanitize_input_no_apos(text, max_length) ==
  IF text = << >> THEN << >>
  ELSE LET t0 == Truncate(text, max_length)
           t1 == replace(t0, "&", << "&", "a", "m", "p", ";" >>)
           t2 == replace(t1, "<", << "&", "l", "t", ";" >>)
           t3 == replace(t2, ">", << "&", "g", "t", ";" >>)
           t4 == replace(t3, "\"", << "&", "q", "u", "o", "t", ";" >>)
       IN  t4

(* A sanitizer that escapes first and truncates the escaped text *)
sanitize_input_escape_first(text, max_length) ==
  IF text = << >> THEN << >>
  ELSE LET t1 == replace(text, "&", << "&", "a", "m", "p", ";" >>)
           t2 == replace(t1, "<", << "&", "l", "t", ";" >>)
           t3 == replace(t2, ">", << "&", "g", "t", ";" >>)
           t4 == replace(t3, "\"", << "&", "q", "u", "o", "t", ";" >>)
           t5 == replace(t4, "'", << "&", "#", "x", "2", "7", ";" >>)
       IN  Truncate(t5, max_length)

(* A sanitizer that leaves the ampersand alone *)
sanitize_input_no_amp(text, max_length) ==
  IF text = << >> THEN << >>
  ELSE LET t0 == Truncate(text, max_length)
           t2 == replace(t0, "<", << "&", "l", "t", ";" >>)
           t3 == replace(t2, ">", << "&", "g", "t", ";" >>)
           t4 == replace(t3, "\"", << "&", "q", "u", "o", "t", ";" >>)
           t5 == replace(t4, "'", << "&", "#", "x", "2", "7", ";" >>)
       IN  t5

sanitize_input(text, max_length) ==
  IF text = << >> THEN << >>
  ELSE LET t0 == Truncate(text, max_length)
           t1 == replace(t0, "&", << "&", "a", "m", "p", ";" >>)
           t2 == replace(t1, "<", << "&", "l", "t", ";" >>)
           t3 == replace(t2, ">", << "&", "g", "t", ";" >>)
           t4 == replace(t3, "\"", << "&", "q", "u", "o", "t", ";" >>)
           t5 == replace(t4, "'", << "&", "#", "x", "2", "7", ";" >>)
       IN  t5

----------------------------------------------------------------------------
(* Python values: what json.loads can return and what a field can hold *)

NAME_MAX == 200
SUBJECT_MAX == 500
MESSAGE_MAX == 10000
STAFF_SUBJECT_MAX == 50

Str(s) == [ kind |-> "str", s |-> s ]

PyNone == [ kind |-> "None" ]

PyInt == [ kind |-> "int" ]

PyList(k) == [ kind |-> "list", len |-> k ]

PyDict(f) == [ kind |-> "dict", fields |-> f ]

get(d, key, default) ==
  IF key \in DOMAIN d.fields THEN d.fields[key] ELSE default

PyLen(v) ==
  IF v.kind = "str" THEN StrLen(v.s)
  ELSE IF v.kind = "dict" THEN Cardinality(DOMAIN v.fields)
  ELSE v.len

Exc(type, text) == [ type |-> type, text |-> text ]

Raise(type, text) == [ raised |-> TRUE, exc |-> Exc(type, text), errors |-> << >> ]

Return(errs) == [ raised |-> FALSE, exc |-> Exc("", ""), errors |-> errs ]

----------------------------------------------------------------------------
(* validate_contact_form *)

NameRequired(name) ==
  IF strip(name.s) = << >> THEN << "Name is required" >> ELSE << >>

EmailErrors(email) ==
  IF strip(email.s) = << >> THEN << "Email is required" >>
  ELSE IF ~ validate_email(email.s) THEN << "Invalid email format" >>
  ELSE << >>

MessageRequired(message) ==
  IF strip(message.s) = << >> THEN << "Message is required" >> ELSE << >>

NameTooLong(name) ==
  IF PyLen(name) > NAME_MAX
  THEN << "Name must be less than 200 characters" >> ELSE << >>

SubjectTooLong(subject) ==
  IF PyLen(subject) > SUBJECT_MAX
  THEN << "Subject must be less than 500 characters" >> ELSE << >>

MessageTooLong(message) ==
  IF PyLen(message) > MESSAGE_MAX
  THEN << "Message must be less than 10,000 characters" >> ELSE << >>

(* A validator that stops at the first violated rule *)
validation_errors_first(name, email, subject, message) ==
  LET all == NameRequired(name) \o EmailErrors(email)
             \o MessageRequired(message) \o NameTooLong(name)
             \o SubjectTooLong(subject) \o MessageTooLong(message)
  IN  IF all = << >> THEN << >> ELSE << Head(all) >>

(* errors = [] followed by the six appends, in source order *)
validation_errors(name, email, subject, message) ==
  NameRequired(name) \o EmailErrors(email)
  \o MessageRequired(message) \o NameTooLong(name)
  \o SubjectTooLong(subject) \o MessageTooLong(message)

validate_contact_form(data) ==
  IF data.kind # "dict"
  THEN Raise("AttributeError", "object has no attribute 'get'")
  ELSE
    LET name    == get(data, "name", Str(<< >>))
        email   == get(data, "email", Str(<< >>))
        subject == get(data, "subject", Str(<< >>))
        message == get(data, "message", Str(<< >>))
    IN  IF name.kind # "str"
        THEN Raise("AttributeError", "name has no attribute 'strip'")
        ELSE IF email.kind # "str"
        THEN Raise("AttributeError", "email has no attribute 'strip'")
        ELSE IF message.kind # "str"
        THEN Raise("AttributeError", "message has no attribute 'strip'")
        ELSE IF subject.kind \notin { "str", "list", "dict" }
        THEN Raise("TypeError", "subject has no len()")
        ELSE Return(validation_errors(name, email, subject, message))

----------------------------------------------------------------------------
(* Responses, collaborators and the except clauses of lambda_handler *)

CorsHeaders ==
  ("Content-Type" :> "application/json")
  @@ ("Access-Control-Allow-Origin" :> "*")
  @@ ("Access-Control-Allow-Headers" :>
        "Content-Type,X-Amz-Date,Authorization,X-Api-Key,X-Amz-Security-Token")
  @@ ("Access-Control-Allow-Methods" :> "POST,OPTIONS")

(* A JSON text is modelled by whether it is well formed and the document  *)
(* it encodes: json.dumps always produces a well-formed text, json.loads  *)
(* raises JSONDecodeError on an ill-formed one.                           *)
JsonText(doc) == [ kind |-> "jsontext", wellformed |-> TRUE, doc |-> doc ]

BadJsonText == [ kind |-> "jsontext", wellformed |-> FALSE ]

json_dumps(doc) == JsonText(doc)

json_loads(text) ==
  IF text.wellformed
  THEN [ raised |-> FALSE, value |-> text.doc ]
  ELSE [ raised |-> TRUE, value |-> PyNone ]

(* A response builder that forgets the CORS headers *)
build_response_without_cors(status_code, body) ==
  [ statusCode |-> status_code,
    headers |-> ("Content-Type" :> "application/json"),
    body |-> json_dumps(body) ]

build_cors_response(status_code, body) ==
  [ statusCode |-> status_code, headers |-> CorsHeaders, body |-> json_dumps(body) ]

PreflightBody == [ message |-> "CORS preflight successful" ]

InvalidJsonBody == [ success |-> FALSE, error |-> "Invalid JSON in request body" ]

ValidationFailedBody(errs) ==
  [ success |-> FALSE, error |-> "Validation failed", details |-> errs ]

SuccessBody(contactId) ==
  [ success |-> TRUE,
    message |-> "Your message has been received. We will get back to you soon!",
    contactId |-> contactId ]

AwsErrorBody ==
  [ success |-> FALSE,
    error |-> "Failed to process your message. Please try again later." ]

InternalErrorBody == [ success |-> FALSE, error |-> "Internal server error" ]

(* What a boto3 call can do: return, raise ClientError (the service      *)
(* answered with an error), or raise an exception that is not a          *)
(* ClientError (no answer: endpoint unreachable).                        *)
TransportOutcomes == { "ok", "ClientError", "EndpointConnectionError" }

TransportExc(outcome) ==
  IF outcome = "ClientError"
  THEN Exc("ClientError", "An error occurred (Throttling) when calling the operation")
  ELSE Exc(outcome, "Could not connect to the endpoint URL")

(* A handler whose only except clause is except ClientError *)
handler_except_client_only(exc) ==
  IF exc.type = "ClientError"
  THEN [ caught |-> TRUE, response |-> build_cors_response(500, AwsErrorBody) ]
  ELSE [ caught |-> FALSE, response |-> build_cors_response(500, InternalErrorBody) ]

(* except ClientError / except Exception of lambda_handler *)
handler_except(exc) ==
  IF exc.type = "ClientError"
  THEN [ caught |-> TRUE, response |-> build_cors_response(500, AwsErrorBody) ]
  ELSE [ caught |-> TRUE, response |-> build_cors_response(500, InternalErrorBody) ]

(* try / except ClientError of send_email and of store_contact *)
call_boto(outcome) ==
  IF outcome = "ok" THEN [ raised |-> FALSE, ret |-> TRUE ]
  ELSE IF outcome = "ClientError" THEN [ raised |-> FALSE, ret |-> FALSE ]
  ELSE [ raised |-> TRUE, ret |-> FALSE ]

send_email(outcome) == call_boto(outcome)

(* A persister that ignores the STORE_CONTACTS toggle *)
store_contact_always(enabled, outcome) ==
  [ called |-> TRUE, raised |-> call_boto(outcome).raised,
    ret |-> call_boto(outcome).ret ]

store_contact(enabled, outcome) ==
  IF ~ enabled
  THEN [ called |-> FALSE, raised |-> FALSE, ret |-> TRUE ]
  ELSE [ called |-> TRUE, raised |-> call_boto(outcome).raised,
         ret |-> call_boto(outcome).ret ]

----------------------------------------------------------------------------
(* Building the contact record *)

GeneralInquiry ==
  Lit(<< "G","e","n","e","r","a","l"," ","I","n","q","u","i","r","y" >>)

StaffSubjectPrefix ==
  Lit(<< "C","o","n","t","a","c","t"," ","F","o","r","m",":"," " >>)

build_contact(body, id) ==
  LET subject == get(body, "subject", Str(GeneralInquiry))
  IN  IF subject.kind # "str"
      THEN [ raised |-> TRUE,
             exc |-> Exc("AttributeError", "subject has no attribute 'strip'") ]
      ELSE [ raised |-> FALSE,
             exc |-> Exc("", ""),
             contact |->
               [ contactId |-> id,
                 name |-> sanitize_input(strip(get(body, "name", Str(<< >>)).s), NAME_MAX),
                 email |-> lower(strip(get(body, "email", Str(<< >>)).s)),
                 subject |-> sanitize_input(strip(subject.s), SUBJECT_MAX),
                 message |-> sanitize_input(strip(get(body, "message", Str(<< >>)).s),
                                            MESSAGE_MAX),
                 timestamp |-> "utcnow",
                 status |-> "new" ] ]

(* A staff subject line that carries the whole subject *)
staff_subject_uncut(contact) == StaffSubjectPrefix \o contact.subject

staff_subject(contact) ==
  StaffSubjectPrefix \o Truncate(contact.subject, STAFF_SUBJECT_MAX)

----------------------------------------------------------------------------
(* Inputs *)

NameVals ==
  { Str(<< >>), Str(Rep(" ", 2)), Str(Lit(<< "A", "l" >>)),
    Str(Lit(<< " ", "<", "b", ">", " " >>)),
    Str(Rep("n", NAME_MAX)), Str(Rep("n", NAME_MAX + 1)),
    Str(Rep("\"", NAME_MAX)),
    Str(Rep(" ", NAME_MAX + 1)), PyNone }

EmailVals ==
  { Str(<< >>), Str(Rep(" ", 1)),
    Str(Lit(<< "a", "@", "b", ".", "c", "o" >>)),
    Str(Lit(<< "A", ".", "z", "@", "B", "-", "1", ".", "c", ".", "U", "K", "\n" >>)),
    Str(Lit(<< "a", "@", "b", ".", "c", "o", " " >>)),
    Str(Lit(<< "n", "o", "t", "-", "a", "n", "-", "e", "m", "a", "i", "l" >>)),
    Str(Lit(<< "a", "@", "b", ".", "c" >>)),
    Str(Lit(<< "<", "a", "@", "b", ".", "c", "o" >>)),
    PyInt }

SubjectVals ==
  { Str(<< >>), Str(Lit(<< "H", "i", "&" >>)),
    Str(Rep("s", SUBJECT_MAX)), Str(Rep("s", SUBJECT_MAX + 1)),
    Str(Rep("'", SUBJECT_MAX)),
    PyList(1), PyList(SUBJECT_MAX + 1), PyNone }

MessageVals ==
  { Str(<< >>), Str(Rep("\n", 1)), Str(Lit(<< "H", "i", "'" >>)),
    Str(Rep("m", MESSAGE_MAX)), Str(Rep("m", MESSAGE_MAX + 1)),
    Str(Rep("&", MESSAGE_MAX)), PyNone }

Absent == [ kind |-> "absent" ]

FieldKeys == { "name", "email", "subject", "message" }

Form(n, e, s, m) ==
  LET all == [ k \in FieldKeys |->
                 IF k = "name" THEN n ELSE IF k = "email" THEN e
                 ELSE IF k = "subject" THEN s ELSE m ]
  IN  PyDict([ k \in { j \in FieldKeys : all[j].kind # "absent" } |-> all[k] ])

Forms ==
  { Form(n, e, s, m) :
      n \in NameVals \cup { Absent }, e \in EmailVals \cup { Absent },
      s \in SubjectVals \cup { Absent }, m \in MessageVals \cup { Absent } }

NonForms == { PyNone, PyInt, PyList(0), Str(Lit(<< "h", "i" >>)) }

NativeForms ==
  { Form(Str(Lit(<< "A", "l" >>)), e, Absent, Str(Lit(<< "H", "i", "'" >>))) :
      e \in { Str(Lit(<< "a", "@", "b", ".", "c", "o" >>)), Absent } }

(* event['body'] handed over by the gateway: a JSON text, or (direct     *)
(* invocation) an already decoded value                                  *)
Bodies ==
  { BadJsonText } \cup { JsonText(d) : d \in Forms \cup NonForms }
  \cup { PyNone, PyList(0) }
  \cup NativeForms

Methods == { "OPTIONS", "POST" }

Events ==
  { [ k \in { "httpMethod", "body" } |-> IF k = "body" THEN b ELSE m ] :
      m \in Methods, b \in Bodies }
  \cup { [ k \in { "httpMethod" } |-> m ] : m \in Methods }
  \cup { [ k \in { "body" } |-> b ] : b \in { BadJsonText, PyNone } }

----------------------------------------------------------------------------
(* State *)

VARIABLES
  STORE_CONTACTS,  \* configuration read at import
  pc,              \* per invocation: position in lambda_handler
  event,           \* per invocation: the event argument (<<>> before the call)
  body,            \* per invocation: local variable body
  contact,         \* per invocation: << >> or << the record built >>
  locals,          \* per invocation: stored / staff_sent / reply_sent once set
  calls,           \* per invocation: collaborator calls made, in order
  trace,           \* per invocation: the handler steps executed, in order
  fault,           \* per invocation: << >> or << exception raised inside try >>
  response,        \* per invocation: << >> or << response returned >>
  escaped,         \* per invocation: << >> or << exception raised to the caller >>
  san              \* a direct call of sanitize_input: its arguments and results

vars ==
  << san, STORE_CONTACTS, pc, event, body, contact, locals, calls, trace,
     fault, response, escaped >>

Req == 1..NumReq

Ids == 1..NumIds

(* the handler's variables before any invocation *)
NoInvocation ==
  /\ pc = [ r \in Req |-> "idle" ]
  /\ event = [ r \in Req |-> << >> ]
  /\ body = [ r \in Req |-> << >> ]
  /\ contact = [ r \in Req |-> << >> ]
  /\ locals = [ r \in Req |-> << >> ]
  /\ calls = [ r \in Req |-> << >> ]
  /\ trace = [ r \in Req |-> << >> ]
  /\ fault = [ r \in Req |-> << >> ]
  /\ response = [ r \in Req |-> << >> ]
  /\ escaped = [ r \in Req |-> << >> ]

NoSanitizerCall == [ text |-> PyNone, max_length |-> 0, results |-> << >> ]

Init ==
  /\ STORE_CONTACTS \in BOOLEAN
  /\ san = NoSanitizerCall
  /\ NoInvocation

----------------------------------------------------------------------------
(* lambda_handler, one action per step *)

Returns(r, resp, step) ==
  /\ response' = [ response EXCEPT ![r] = << resp >> ]
  /\ trace' = [ trace EXCEPT ![r] = Append(@, step) ]
  /\ pc' = [ pc EXCEPT ![r] = "done" ]
  /\ UNCHANGED << fault, escaped >>

Faults(r, exc, step) ==
  LET h == handler_except(exc)
  IN  /\ fault' = [ fault EXCEPT ![r] = << exc >> ]
      /\ trace' = [ trace EXCEPT ![r] = Append(@, step) ]
      /\ pc' = [ pc EXCEPT ![r] = "done" ]
      /\ IF h.caught
         THEN /\ response' = [ response EXCEPT ![r] = << h.response >> ]
              /\ UNCHANGED escaped
         ELSE /\ escaped' = [ escaped EXCEPT ![r] = << exc >> ]
              /\ UNCHANGED response

Continues(r, next, step) ==
  /\ pc' = [ pc EXCEPT ![r] = next ]
  /\ trace' = [ trace EXCEPT ![r] = Append(@, step) ]
  /\ UNCHANGED << fault, response, escaped >>

Invoke(r) ==
  /\ pc[r] = "idle"
  /\ \E ev \in Events : event' = [ event EXCEPT ![r] = ev ]
  /\ pc' = [ pc EXCEPT ![r] = "preflight" ]
  /\ UNCHANGED << san, STORE_CONTACTS, body, contact, locals, calls, trace, fault,
                  response, escaped >>

(* A handler without the OPTIONS short-circuit *)
Preflight_skipped(r) ==
  /\ pc[r] = "preflight"
  /\ Continues(r, "parse", "try")
  /\ UNCHANGED << san, STORE_CONTACTS, event, body, contact, locals, calls >>

Preflight(r) ==
  /\ pc[r] = "preflight"
  /\ IF "httpMethod" \in DOMAIN event[r] /\ event[r].httpMethod = "OPTIONS"
     THEN Returns(r, build_cors_response(200, PreflightBody), "preflight")
     ELSE Continues(r, "parse", "try")
  /\ UNCHANGED << san, STORE_CONTACTS, event, body, contact, locals, calls >>

ParseBody(r) ==
  /\ pc[r] = "parse"
  /\ LET b == IF "body" \in DOMAIN event[r] THEN event[r].body ELSE BadJsonText
     IN  IF b.kind = "jsontext"
         THEN LET j == json_loads(b)
              IN  IF j.raised
                  THEN /\ Returns(r, build_cors_response(400, InvalidJsonBody),
                                  "json.loads")
                       /\ UNCHANGED body
                  ELSE /\ body' = [ body EXCEPT ![r] = << j.value >> ]
                       /\ Continues(r, "validate", "json.loads")
         ELSE /\ body' = [ body EXCEPT ![r] = << b >> ]
              /\ Continues(r, "validate", "body")
  /\ UNCHANGED << san, STORE_CONTACTS, event, contact, locals, calls >>

(* A handler that does not return on validation errors *)
Validate_continues(r) ==
  /\ pc[r] = "validate"
  /\ LET v == validate_contact_form(body[r][1])
     IN  IF v.raised THEN Faults(r, v.exc, "validate_contact_form")
         ELSE Continues(r, "build", "validate_contact_form")
  /\ UNCHANGED << san, STORE_CONTACTS, event, body, contact, locals, calls >>

Validate(r) ==
  /\ pc[r] = "validate"
  /\ LET v == validate_contact_form(body[r][1])
     IN  IF v.raised THEN Faults(r, v.exc, "validate_contact_form")
         ELSE IF v.errors # << >>
         THEN Returns(r, build_cors_response(400, ValidationFailedBody(v.errors)),
                      "validate_contact_form")
         ELSE Continues(r, "build", "validate_contact_form")
  /\ UNCHANGED << san, STORE_CONTACTS, event, body, contact, locals, calls >>

(* A handler that keeps the record in a module-level variable *)
Build_shared(r) ==
  /\ pc[r] = "build"
  /\ \E id \in Ids :
       LET b == build_contact(body[r][1], id)
       IN  IF b.raised
           THEN /\ Faults(r, b.exc, "contact")
                /\ UNCHANGED contact
           ELSE /\ contact' = [ q \in Req |-> << b.contact >> ]
                /\ Continues(r, "store", "contact")
  /\ UNCHANGED << san, STORE_CONTACTS, event, body, locals, calls >>

Build(r) ==
  /\ pc[r] = "build"
  /\ \E id \in Ids :
       LET b == build_contact(body[r][1], id)
       IN  IF b.raised
           THEN /\ Faults(r, b.exc, "contact")
                /\ UNCHANGED contact
           ELSE /\ contact' = [ contact EXCEPT ![r] = << b.contact >> ]
                /\ Continues(r, "store", "contact")
  /\ UNCHANGED << san, STORE_CONTACTS, event, body, locals, calls >>

Store(r) ==
  /\ pc[r] = "store"
  /\ \E o \in TransportOutcomes :
       LET res == store_contact(STORE_CONTACTS, o)
       IN  /\ calls' = [ calls EXCEPT ![r] =
                           IF res.called
                           THEN Append(@, [ op |-> "put_item", audience |-> "table",
                                            item |-> contact[r][1], outcome |-> o ])
                           ELSE @ ]
           /\ IF res.raised
              THEN /\ Faults(r, TransportExc(o), "store_contact")
                   /\ UNCHANGED locals
              ELSE /\ locals' = [ locals EXCEPT ![r] = ("stored" :> res.ret) @@ @ ]
                   /\ Continues(r, "staff", "store_contact")
  /\ UNCHANGED << san, STORE_CONTACTS, event, body, contact >>

(* A handler that sends the staff notification again after a failed send *)
StaffNotify_retry(r) ==
  /\ pc[r] = "staff"
  /\ \E o \in TransportOutcomes :
       LET res == send_email(o)
       IN  /\ calls' = [ calls EXCEPT ![r] =
                           Append(@, [ op |-> "send_email", audience |-> "staff",
                                       subject |-> staff_subject(contact[r][1]),
                                       item |-> contact[r][1], outcome |-> o ]) ]
           /\ IF res.raised
              THEN /\ Faults(r, TransportExc(o), "send_email staff")
                   /\ UNCHANGED locals
              ELSE /\ locals' = [ locals EXCEPT ![r] = ("staff_sent" :> res.ret) @@ @ ]
                   /\ Continues(r, IF ~ res.ret /\ Len(calls[r]) < 2
                                   THEN "staff" ELSE "reply",
                                "send_email staff")
  /\ UNCHANGED << san, STORE_CONTACTS, event, body, contact >>

StaffNotify(r) ==
  /\ pc[r] = "staff"
  /\ \E o \in TransportOutcomes :
       LET res == send_email(o)
       IN  /\ calls' = [ calls EXCEPT ![r] =
                           Append(@, [ op |-> "send_email", audience |-> "staff",
                                       subject |-> staff_subject(contact[r][1]),
                                       item |-> contact[r][1], outcome |-> o ]) ]
           /\ IF res.raised
              THEN /\ Faults(r, TransportExc(o), "send_email staff")
                   /\ UNCHANGED locals
              ELSE /\ locals' = [ locals EXCEPT ![r] = ("staff_sent" :> res.ret) @@ @ ]
                   /\ Continues(r, "reply", "send_email staff")
  /\ UNCHANGED << san, STORE_CONTACTS, event, body, contact >>

AutoReply(r) ==
  /\ pc[r] = "reply"
  /\ \E o \in TransportOutcomes :
       LET res == send_email(o)
       IN  /\ calls' = [ calls EXCEPT ![r] =
                           Append(@, [ op |-> "send_email", audience |-> "submitter",
                                       to |-> contact[r][1].email,
                                       item |-> contact[r][1], outcome |-> o ]) ]
           /\ IF res.raised
              THEN /\ Faults(r, TransportExc(o), "send_email reply")
                   /\ UNCHANGED locals
              ELSE /\ locals' = [ locals EXCEPT ![r] = ("reply_sent" :> res.ret) @@ @ ]
                   /\ Continues(r, "respond", "send_email reply")
  /\ UNCHANGED << san, STORE_CONTACTS, event, body, contact >>

(* A handler whose success path falls off the end without a return *)
Respond_silent(r) ==
  /\ pc[r] = "respond"
  /\ pc' = [ pc EXCEPT ![r] = "done" ]
  /\ trace' = [ trace EXCEPT ![r] = Append(@, "return") ]
  /\ UNCHANGED << san, STORE_CONTACTS, event, body, contact, locals, calls,
                  fault, response, escaped >>

Respond(r) ==
  /\ pc[r] = "respond"
  /\ Returns(r, build_cors_response(200, SuccessBody(contact[r][1].contactId)),
             "return")
  /\ UNCHANGED << san, STORE_CONTACTS, event, body, contact, locals, calls >>

Step(r) ==
  \/ Invoke(r)
  \/ Preflight(r)
  \/ ParseBody(r)
  \/ Validate(r)
  \/ Build(r)
  \/ Store(r)
  \/ StaffNotify(r)
  \/ AutoReply(r)
  \/ Respond(r)

Next == Step(1)

Spec == Init /\ [][Next]_vars

(* Every boto3 call returns or raises and the Lambda runtime runs the     *)
(* handler to its end: an invocation that has started and has not yet     *)
(* returned moves on to another position.                                 *)
Positions ==
  { "idle", "preflight", "parse", "validate", "build", "store", "staff",
    "reply", "respond", "done" }

Advance(r) ==
  /\ pc[r] \notin { "idle", "done" }
  /\ \E p \in Positions \ { pc[r] } : pc' = [ pc EXCEPT ![r] = p ]

FairSpec == Spec /\ WF_pc(Advance(1))


----------------------------------------------------------------------------
(* Concurrent invocations: the steps of the requests interleave freely *)

ValidForm ==
  Form(Str(Lit(<< "A", "l" >>)), Str(Lit(<< "a", "@", "b", ".", "c", "o" >>)),
       Absent, Str(Lit(<< "H", "i", "'" >>)))

ConcEvents ==
  { [ k \in { "httpMethod", "body" } |-> IF k = "body" THEN b ELSE "POST" ] :
      b \in { JsonText(ValidForm), BadJsonText } }

(* what the AWS endpoints answer while the invocations overlap *)
ConcOutcomes == { "ok", "EndpointConnectionError" }

ConcNetwork ==
  \A r \in Req : \A i \in DOMAIN calls[r] : calls[r][i].outcome \in ConcOutcomes

InvokeConc(r) ==
  /\ pc[r] = "idle"
  /\ \E ev \in ConcEvents : event' = [ event EXCEPT ![r] = ev ]
  /\ pc' = [ pc EXCEPT ![r] = "preflight" ]
  /\ UNCHANGED << san, STORE_CONTACTS, body, contact, locals, calls, trace, fault,
                  response, escaped >>

StoreConc(r) == Store(r) /\ ConcNetwork'

StaffNotifyConc(r) == StaffNotify(r) /\ ConcNetwork'

AutoReplyConc(r) == AutoReply(r) /\ ConcNetwork'

StepConc(r) ==
  \/ InvokeConc(r)
  \/ Preflight(r)
  \/ ParseBody(r)
  \/ Validate(r)
  \/ Build(r)
  \/ StoreConc(r)
  \/ StaffNotifyConc(r)
  \/ AutoReplyConc(r)
  \/ Respond(r)

NextConc == \E r \in Req : StepConc(r)

InitConc == STORE_CONTACTS = TRUE /\ san = NoSanitizerCall /\ NoInvocation

SpecConc == InitConc /\ [][NextConc]_vars


----------------------------------------------------------------------------
(* sanitize_input called directly, once and then again on its own result *)

MaxTextLen == 3
MaxCap == 4
DEFAULT_MAX_LENGTH == 5000

SanAlphabet == { "&", "<", ">", "\"", "'", "a", ";" }

SanTexts ==
  { PyNone } \cup
  { Str(Lit(cs)) : cs \in UNION { [ 1..k -> SanAlphabet ] : k \in 0..MaxTextLen } }

Caps == { -1 } \cup (0..MaxCap) \cup { DEFAULT_MAX_LENGTH }

handlerVars ==
  << STORE_CONTACTS, pc, event, body, contact, locals, calls, trace, fault,
     response, escaped >>

(* "if not text: return ''" also covers text = None *)
sanitize_call(v, max_length) ==
  IF v.kind = "None" THEN << >> ELSE sanitize_input(v.s, max_length)

InitSan ==
  /\ STORE_CONTACTS = TRUE
  /\ NoInvocation
  /\ \E v \in SanTexts : \E n \in Caps :
       san = [ text |-> v, max_length |-> n, results |-> << >> ]

SanitizeCall ==
  /\ Len(san.results) = 0
  /\ san' = [ san EXCEPT !.results = << sanitize_call(san.text, san.max_length) >> ]
  /\ UNCHANGED handlerVars

ResanitizeCall ==
  /\ Len(san.results) = 1
  /\ san' = [ san EXCEPT !.results =
                Append(@, sanitize_call(Str(san.results[1]), san.max_length)) ]
  /\ UNCHANGED handlerVars

NextSan == SanitizeCall \/ ResanitizeCall

SpecSan == InitSan /\ [][NextSan]_vars

----------------------------------------------------------------------------
(* Vocabulary of the properties *)

IsOptions(ev) == "httpMethod" \in DOMAIN ev /\ ev.httpMethod = "OPTIONS"

Invoked(r) == pc[r] # "idle"

Finished(r) == pc[r] = "done"

Returned(r) == response[r] # << >>

Status(r) == response[r][1].statusCode

Doc(r) == response[r][1].body.doc

EventBody(ev) == IF "body" \in DOMAIN ev THEN ev.body ELSE BadJsonText

Count(q, x) == Cardinality({ i \in DOMAIN q : q[i] = x })

Reports(r, flag) == "success" \in DOMAIN Doc(r) /\ Doc(r).success = flag

(* the decoded body is a field mapping that validate_contact_form accepts *)
Accepted(r) ==
  /\ body[r] # << >>
  /\ body[r][1].kind = "dict"
  /\ ~ validate_contact_form(body[r][1]).raised
  /\ validate_contact_form(body[r][1]).errors = << >>

(* the body cannot be decoded, or the validator returns a non-empty list *)
Refused(r) ==
  /\ Invoked(r)
  /\ ~ IsOptions(event[r])
  /\ LET b == EventBody(event[r])
     IN  \/ b.kind = "jsontext" /\ ~ b.wellformed
         \/ LET d == IF b.kind = "jsontext" THEN b.doc ELSE b
            IN  /\ d.kind = "dict"
                /\ ~ validate_contact_form(d).raised
                /\ validate_contact_form(d).errors # << >>

(* the body is not a JSON text encoding a key/value object *)
Malformed(ev) ==
  LET b == EventBody(ev)
  IN  IF b.kind = "jsontext"
      THEN ~ b.wellformed \/ b.doc.kind # "dict"
      ELSE b.kind # "dict"

GenericErrors ==
  { "Failed to process your message. Please try again later.",
    "Internal server error" }

----------------------------------------------------------------------------
(* C1: every POST whose body decodes to a field mapping that the          *)
(* validator accepts ends with status 200, success = true and the id of   *)
(* the record built, whatever the store call and the two sends do.        *)
C1_AcceptedAlwaysSucceeds ==
  \A r \in Req :
    (Finished(r) /\ Accepted(r)) =>
       /\ Returned(r)
       /\ Status(r) = 200
       /\ Reports(r, TRUE)
       /\ contact[r] # << >>
       /\ Doc(r).contactId = contact[r][1].contactId

(* C2: a request that ends REJECTED (undecodable body, or a non-empty     *)
(* list of validation errors) is answered 400 with success = false, and   *)
(* no record was built, nothing stored and nothing sent.                  *)
C2_RejectedHasNoEffects ==
  \A r \in Req :
    /\ (Finished(r) /\ Refused(r)) => (Returned(r) /\ Status(r) = 400)
    /\ (Returned(r) /\ Status(r) = 400) =>
          /\ Reports(r, FALSE)
          /\ contact[r] = << >>
          /\ calls[r] = << >>
          /\ locals[r] = << >>
          /\ Count(trace[r], "contact") = 0

C2_Witness ==
  /\ Finished(1) /\ Refused(1) /\ Returned(1) /\ Status(1) = 400
  /\ "details" \in DOMAIN Doc(1)
  /\ Doc(1).details = << "Invalid email format" >>

(* C3: every request with a malformed body (ill-formed JSON, JSON that    *)
(* decodes to a non-object, a non-text body that is not a mapping) is     *)
(* answered 400 with success = false, never 500.                          *)
C3_MalformedBodyIs400 ==
  \A r \in Req :
    (Finished(r) /\ ~ IsOptions(event[r]) /\ Malformed(event[r])) =>
       (Returned(r) /\ Status(r) = 400 /\ Reports(r, FALSE))

(* C4: a fault raised inside the try block never reaches the caller: the  *)
(* handler returns 500 with success = false and one of the two constant   *)
(* messages, which is not the text of the exception.                      *)
C4_FaultsAreCaught ==
  \A r \in Req :
    /\ escaped[r] = << >>
    /\ fault[r] # << >> =>
          /\ Finished(r) /\ Returned(r)
          /\ Status(r) = 500
          /\ Reports(r, FALSE)
          /\ DOMAIN Doc(r) = { "success", "error" }
          /\ Doc(r).error \in GenericErrors
          /\ Doc(r).error # fault[r][1].text

C4_Witness ==
  /\ fault[1] # << >>
  /\ fault[1][1].type = "EndpointConnectionError"
  /\ Len(calls[1]) = 3
  /\ Returned(1) /\ Status(1) = 500

(* C5: every response has statusCode, headers and body, the headers hold  *)
(* Content-Type: application/json and the three CORS headers, and the     *)
(* JSON body has a boolean success key.                                   *)
WellShaped(resp) ==
  /\ DOMAIN resp = { "statusCode", "headers", "body" }
  /\ resp.body.kind = "jsontext" /\ resp.body.wellformed
  /\ { "Content-Type", "Access-Control-Allow-Origin",
       "Access-Control-Allow-Headers", "Access-Control-Allow-Methods" }
       \subseteq DOMAIN resp.headers
  /\ resp.headers["Content-Type"] = "application/json"
  /\ resp.headers["Access-Control-Allow-Origin"] = "*"
  /\ resp.headers["Access-Control-Allow-Methods"] = "POST,OPTIONS"

HasSuccessFlag(resp) ==
  /\ "success" \in DOMAIN resp.body.doc
  /\ resp.body.doc.success \in BOOLEAN

C5_EveryResponseHasSuccess ==
  \A r \in Req :
    Returned(r) => (WellShaped(response[r][1]) /\ HasSuccessFlag(response[r][1]))

(* C5 as amended: every response is well shaped with the four headers;    *)
(* the body has a boolean success key on every path except the OPTIONS    *)
(* preflight, whose body is the fixed acknowledgement without that key.   *)
C5_ResponseShape ==
  \A r \in Req :
    /\ Finished(r) => Returned(r)
    /\ Returned(r) =>
          /\ WellShaped(response[r][1])
          /\ IF IsOptions(event[r])
             THEN Doc(r) = PreflightBody
             ELSE HasSuccessFlag(response[r][1])

C5_Witness ==
  /\ Returned(1) /\ Status(1) = 200 /\ ~ IsOptions(event[1])
  /\ Reports(1, TRUE)
  /\ Len(calls[1]) = 3

(* C6: an OPTIONS request is answered 200 with the CORS headers and the   *)
(* fixed acknowledgement body whatever its body is; the body is neither   *)
(* decoded nor validated, no record is built, nothing stored or sent.     *)
C6_PreflightShortCircuits ==
  \A r \in Req :
    IsOptions(event[r]) =>
       /\ pc[r] \in { "preflight", "done" }
       /\ body[r] = << >> /\ contact[r] = << >> /\ calls[r] = << >>
       /\ locals[r] = << >> /\ fault[r] = << >>
       /\ Finished(r) =>
             /\ response[r] = << build_cors_response(200, PreflightBody) >>
             /\ trace[r] = << "preflight" >>

C6_Witness ==
  /\ IsOptions(event[1]) /\ Finished(1) /\ Returned(1) /\ Status(1) = 200
  /\ "body" \in DOMAIN event[1]
  /\ event[1].body.kind = "jsontext" /\ event[1].body.wellformed
  /\ event[1].body.doc.kind = "dict"
  /\ ~ validate_contact_form(event[1].body.doc).raised
  /\ validate_contact_form(event[1].body.doc).errors = << >>

(* C7: send_email turns every failure of the mail transport into the      *)
(* return value False and never raises: each send that was made has set   *)
(* its flag, to True exactly when the transport accepted the message.     *)
C7_SendNeverRaises ==
  \A r \in Req : \A i \in DOMAIN calls[r] :
    calls[r][i].op = "send_email" =>
       LET flag == IF calls[r][i].audience = "staff" THEN "staff_sent"
                   ELSE "reply_sent"
       IN  /\ flag \in DOMAIN locals[r]
           /\ locals[r][flag] = (calls[r][i].outcome = "ok")

(* C8: once a record is built, the store call, the staff send and the     *)
(* submitter send are each attempted exactly once whatever the others     *)
(* report.                                                                *)
C8_EachAttemptedOnce ==
  \A r \in Req :
    (Finished(r) /\ contact[r] # << >>) =>
       /\ Count(trace[r], "store_contact") = 1
       /\ Count(trace[r], "send_email staff") = 1
       /\ Count(trace[r], "send_email reply") = 1

(* C9: with STORE_CONTACTS off, store_contact returns True without a put  *)
(* and the handler goes on to the staff send as after a successful store. *)
C9_DisabledStoreIsNoOpSuccess ==
  [][ \A r \in Req :
        (~ STORE_CONTACTS /\ pc[r] = "store" /\ pc'[r] # "store") =>
           /\ calls'[r] = calls[r]
           /\ locals'[r] = [ stored |-> TRUE ]
           /\ pc'[r] = "staff"
           /\ fault'[r] = << >> /\ response'[r] = << >> ]_vars

C9_Witness ==
  /\ ~ STORE_CONTACTS /\ Finished(1) /\ Returned(1) /\ Status(1) = 200
  /\ Len(calls[1]) = 2
  /\ locals[1] = [ stored |-> TRUE, staff_sent |-> FALSE, reply_sent |-> TRUE ]

(* C10: validate_contact_form reports additively: its list holds one      *)
(* message for each violated rule (name required, email required, email   *)
(* format, message required, name > 200, subject > 500, message > 10000). *)
ValidatorReturned(r) ==
  /\ body[r] # << >>
  /\ pc[r] # "validate"
  /\ body[r][1].kind = "dict"
  /\ ~ validate_contact_form(body[r][1]).raised

ReportedErrors(r) ==
  IF Returned(r) /\ "details" \in DOMAIN Doc(r) THEN Doc(r).details ELSE << >>

Field(r, key) == get(body[r][1], key, Str(<< >>))

Blank(v) == strip(v.s) = << >>

Once(r, msg) == Count(ReportedErrors(r), msg) = 1

OtherRulesReported(r) ==
  /\ Blank(Field(r, "name")) => Once(r, "Name is required")
  /\ Blank(Field(r, "email")) => Once(r, "Email is required")
  /\ Blank(Field(r, "message")) => Once(r, "Message is required")
  /\ PyLen(Field(r, "name")) > NAME_MAX =>
        Once(r, "Name must be less than 200 characters")
  /\ PyLen(Field(r, "subject")) > SUBJECT_MAX =>
        Once(r, "Subject must be less than 500 characters")
  /\ PyLen(Field(r, "message")) > MESSAGE_MAX =>
        Once(r, "Message must be less than 10,000 characters")

C10_EveryViolatedRuleReported ==
  \A r \in Req :
    ValidatorReturned(r) =>
       /\ OtherRulesReported(r)
       /\ ~ validate_email(Field(r, "email").s) => Once(r, "Invalid email format")

(* C10 as amended: the email-format message is reported for an email that *)
(* is not blank and does not match; a missing or blank email is reported  *)
(* as "Email is required" alone.  All other rules are reported additively.*)
C10_Additive ==
  \A r \in Req :
    ValidatorReturned(r) =>
       /\ OtherRulesReported(r)
       /\ (~ Blank(Field(r, "email")) /\ ~ validate_email(Field(r, "email").s))
             => Once(r, "Invalid email format")
       /\ Blank(Field(r, "email")) =>
             Count(ReportedErrors(r), "Invalid email format") = 0

C10_Witness ==
  /\ ValidatorReturned(1) /\ Returned(1) /\ Status(1) = 400
  /\ ReportedErrors(1) =
       << "Name is required", "Invalid email format", "Message is required",
          "Name must be less than 200 characters",
          "Subject must be less than 500 characters" >>

(* C11: validate_contact_form never raises on a mapping, whatever the      *)
(* types of its values: no request whose decoded body is a mapping faults *)
(* in the validation step.                                                *)
C11_ValidatorNeverRaises ==
  \A r \in Req :
    (body[r] # << >> /\ body[r][1].kind = "dict" /\ fault[r] # << >>) =>
       trace[r][Len(trace[r])] # "validate_contact_form"

(* C12: VALIDATED -> BUILT never fails: once the validator has accepted   *)
(* the body and the build step has run, the record exists.                *)
C12_BuildNeverFails ==
  \A r \in Req :
    (Accepted(r) /\ pc[r] \notin { "validate", "build" }) => contact[r] # << >>

(* C13: in every record built, len(name) <= 200, len(subject) <= 500 and  *)
(* len(message) <= 10000.                                                 *)
C13_RecordWithinCaps ==
  \A r \in Req :
    contact[r] # << >> =>
       /\ StrLen(contact[r][1].name) <= NAME_MAX
       /\ StrLen(contact[r][1].subject) <= SUBJECT_MAX
       /\ StrLen(contact[r][1].message) <= MESSAGE_MAX

(* C13 as amended: the caps bound the text before escaping (the trimmed   *)
(* input); the escaped fields of the record are at most six times as      *)
(* long: 1200, 3000 and 60000 characters.                                 *)
LongestEntity == 6

C13_RecordWithinEscapedCaps ==
  \A r \in Req :
    contact[r] # << >> =>
       /\ StrLen(strip(Field(r, "name").s)) <= NAME_MAX
       /\ StrLen(strip(get(body[r][1], "subject", Str(GeneralInquiry)).s))
             <= SUBJECT_MAX
       /\ StrLen(strip(Field(r, "message").s)) <= MESSAGE_MAX
       /\ StrLen(contact[r][1].name) <= LongestEntity * NAME_MAX
       /\ StrLen(contact[r][1].subject) <= LongestEntity * SUBJECT_MAX
       /\ StrLen(contact[r][1].message) <= LongestEntity * MESSAGE_MAX

C13_Witness ==
  /\ contact[1] # << >>
  /\ StrLen(contact[1][1].name) = LongestEntity * NAME_MAX
  /\ StrLen(contact[1][1].subject) = LongestEntity * SUBJECT_MAX
  /\ StrLen(contact[1][1].message) = 5 * MESSAGE_MAX
  /\ Finished(1) /\ Status(1) = 200

(* C14: the output of sanitize_input holds no literal < > " ' and every & *)
(* in it is the first character of one of the five entities.              *)
Entities ==
  { << "&", "a", "m", "p", ";" >>, << "&", "l", "t", ";" >>,
    << "&", "g", "t", ";" >>, << "&", "q", "u", "o", "t", ";" >>,
    << "&", "#", "x", "2", "7", ";" >> }

NoMarkup(x) ==
  \A i \in 1..Len(x) :
    /\ x[i] \notin { "<", ">", "\"", "'" }
    /\ x[i] = "&" =>
         \E e \in Entities :
           /\ i + Len(e) - 1 <= Len(x)
           /\ SubSeq(x, i, i + Len(e) - 1) = e

C14_OutputHasNoMarkup ==
  \A k \in DOMAIN san.results : NoMarkup(Flat(san.results[k]))

C14_Witness ==
  /\ san.text.kind = "str"
  /\ Flat(san.text.s) = << "<", "&", "'" >>
  /\ san.max_length = 2
  /\ Len(san.results) = 1
  /\ Flat(san.results[1]) = << "&", "l", "t", ";", "&", "a", "m", "p", ";" >>

(* C15: sanitize_input(s, n) is the character-by-character escape of the  *)
(* first min(len(s), n) characters of s; its length may exceed n; empty   *)
(* or absent input gives the empty string.                                *)
Entity(c) ==
  IF c = "&" THEN << "&", "a", "m", "p", ";" >>
  ELSE IF c = "<" THEN << "&", "l", "t", ";" >>
  ELSE IF c = ">" THEN << "&", "g", "t", ";" >>
  ELSE IF c = "\"" THEN << "&", "q", "u", "o", "t", ";" >>
  ELSE IF c = "'" THEN << "&", "#", "x", "2", "7", ";" >>
  ELSE << c >>

RECURSIVE EscapeEach(_)
EscapeEach(x) ==
  IF x = << >> THEN << >> ELSE Entity(Head(x)) \o EscapeEach(Tail(x))

Min(a, b) == IF a <= b THEN a ELSE b

C15_TruncateThenEscapeOnce ==
  (Len(san.results) >= 1 /\ san.max_length >= 0) =>
     IF san.text.kind = "None" THEN san.results[1] = << >>
     ELSE LET x == Flat(san.text.s)
          IN  /\ Flat(san.results[1])
                   = EscapeEach(SubSeq(x, 1, Min(Len(x), san.max_length)))
              /\ x = << >> => san.results[1] = << >>

C15_Witness ==
  /\ Len(san.results) = 1
  /\ san.text.kind = "str"
  /\ Flat(san.text.s) = << "a", "&", "<" >>
  /\ san.max_length = 2
  /\ Flat(san.results[1]) = << "a", "&", "a", "m", "p", ";" >>
  /\ StrLen(san.results[1]) > san.max_length

(* C16: sanitize_input is not idempotent: when the cap truncates neither  *)
(* call, sanitizing the result again gives the same text exactly when the *)
(* input holds none of & < > " '.                                         *)
Special == { "&", "<", ">", "\"", "'" }

C16_IdempotentOnlyWithoutSpecials ==
  (/\ Len(san.results) = 2
   /\ san.text.kind = "str"
   /\ san.max_length >= StrLen(san.text.s)
   /\ san.max_length >= StrLen(san.results[1])) =>
     LET x == Flat(san.text.s)
     IN  (Flat(san.results[2]) = Flat(san.results[1]))
            <=> (\A i \in 1..Len(x) : x[i] \notin Special)

C16_Witness ==
  /\ Len(san.results) = 2
  /\ san.text.kind = "str"
  /\ Flat(san.text.s) = << "&" >>
  /\ Flat(san.results[1]) = << "&", "a", "m", "p", ";" >>
  /\ Flat(san.results[2]) = << "&", "a", "m", "p", ";", "a", "m", "p", ";" >>

(* C17: the staff subject line is 'Contact Form: ' followed by the first  *)
(* 50 characters of the record's (escaped) subject, so it is never longer *)
(* than the prefix plus 50.                                               *)
RECURSIVE CharAt(_, _)
CharAt(s, i) ==
  LET r == Head(s)
  IN  IF i <= RunLen(r) THEN r.t[((i - 1) % Len(r.t)) + 1]
      ELSE CharAt(Tail(s), i - RunLen(r))

StaffCalls(r) ==
  { i \in DOMAIN calls[r] : calls[r][i].audience = "staff" }

C17_StaffSubjectBounded ==
  \A r \in Req : \A i \in StaffCalls(r) :
    LET line   == calls[r][i].subject
        subj   == calls[r][i].item.subject
        prefix == Flat(StaffSubjectPrefix)
        k      == Min(StrLen(subj), STAFF_SUBJECT_MAX)
    IN  /\ StrLen(line) = Len(prefix) + k
        /\ StrLen(line) <= Len(prefix) + STAFF_SUBJECT_MAX
        /\ \A j \in 1..Len(prefix) : CharAt(line, j) = prefix[j]
        /\ \A j \in 1..k : CharAt(line, Len(prefix) + j) = CharAt(subj, j)

C17_Witness ==
  /\ StaffCalls(1) # { }
  /\ \E i \in StaffCalls(1) :
       /\ StrLen(calls[1][i].item.subject) = LongestEntity * SUBJECT_MAX
       /\ StrLen(calls[1][i].subject) = 64
       /\ CharAt(calls[1][i].subject, 63) = "&"
       /\ CharAt(calls[1][i].subject, 64) = "#"

(* C18: invocations are isolated: the handler never writes module-level   *)
(* state, each request builds its own record with its own distinct id,    *)
(* and its response and collaborator calls depend only on its own input   *)
(* and its own collaborator outcomes.                                     *)
Decoded(ev) ==
  IF EventBody(ev).kind = "jsontext" THEN EventBody(ev).doc ELSE EventBody(ev)

TransportFault(r) ==
  \E i \in DOMAIN calls[r] : calls[r][i].outcome \notin { "ok", "ClientError" }

(* the response of request r as a function of r's own event, record and   *)
(* collaborator outcomes                                                  *)
OwnResponse(r) ==
  LET ev == event[r]
  IN  IF IsOptions(ev) THEN build_cors_response(200, PreflightBody)
      ELSE IF EventBody(ev).kind = "jsontext" /\ ~ EventBody(ev).wellformed
      THEN build_cors_response(400, InvalidJsonBody)
      ELSE LET v == validate_contact_form(Decoded(ev))
           IN  IF v.raised THEN build_cors_response(500, InternalErrorBody)
               ELSE IF v.errors # << >>
               THEN build_cors_response(400, ValidationFailedBody(v.errors))
               ELSE IF contact[r] = << >> \/ TransportFault(r)
               THEN build_cors_response(500, InternalErrorBody)
               ELSE build_cors_response(200, SuccessBody(contact[r][1].contactId))

OwnRecord(r) ==
  /\ contact[r] # << >> =>
        /\ pc[r] \notin { "idle", "preflight", "parse", "validate", "build" }
        /\ \E id \in Ids :
             contact[r][1] = build_contact(Decoded(event[r]), id).contact
  /\ \A i \in DOMAIN calls[r] : calls[r][i].item = contact[r][1]

DependsOnOwnInput ==
  \A r \in Req :
    /\ OwnRecord(r)
    /\ Finished(r) => response[r] = << OwnResponse(r) >>

DistinctIds ==
  \A r \in Req : \A q \in Req :
    (r # q /\ contact[r] # << >> /\ contact[q] # << >>) =>
       contact[r][1].contactId # contact[q][1].contactId

Untouched(q) ==
  /\ pc'[q] = pc[q] /\ event'[q] = event[q] /\ body'[q] = body[q]
  /\ contact'[q] = contact[q] /\ locals'[q] = locals[q] /\ calls'[q] = calls[q]
  /\ trace'[q] = trace[q] /\ fault'[q] = fault[q]
  /\ response'[q] = response[q] /\ escaped'[q] = escaped[q]

OneRequestPerStep ==
  /\ STORE_CONTACTS' = STORE_CONTACTS
  /\ \E r \in Req : \A q \in Req \ { r } : Untouched(q)

C18_IsolatedWithDistinctIds == DependsOnOwnInput /\ DistinctIds

(* C18 as amended: as above, but the ids of two records are the first 8   *)
(* hex digits of two independent uuid4 draws and can coincide.            *)
C18_Isolated == [] DependsOnOwnInput /\ [][OneRequestPerStep]_vars

C18_Witness ==
  /\ Finished(1) /\ Finished(2)
  /\ event[1] = event[2]
  /\ contact[1] # << >> /\ contact[2] # << >>
  /\ contact[1][1].contactId # contact[2][1].contactId
  /\ Status(1) = 200 /\ Status(2) = 500
  /\ Len(calls[1]) = 3 /\ Len(calls[2]) = 1

(* C19: provided every collaborator call returns or raises, every         *)
(* execution ends in exactly one terminal state, 200, 400 or 500, with    *)
(* exactly one response; a 400 is only reached before a record is built,  *)
(* and nothing changes after the terminal state.                          *)
TerminalStatus == { 200, 400, 500 }

OneTerminalState(r) ==
  /\ Finished(r) <=> Returned(r)
  /\ Finished(r) =>
       /\ Len(response[r]) = 1
       /\ Status(r) \in TerminalStatus
       /\ Status(r) = 400 => (contact[r] = << >> /\ calls[r] = << >>)
       /\ Status(r) = 200 => (contact[r] # << >> \/ IsOptions(event[r]))

Frozen(r) ==
  /\ pc'[r] = pc[r] /\ event'[r] = event[r] /\ body'[r] = body[r]
  /\ contact'[r] = contact[r] /\ locals'[r] = locals[r] /\ calls'[r] = calls[r]
  /\ trace'[r] = trace[r] /\ fault'[r] = fault[r]
  /\ response'[r] = response[r] /\ escaped'[r] = escaped[r]

C19_Terminates ==
  /\ \A r \in Req : Invoked(r) ~> Finished(r)
  /\ [] (\A r \in Req : OneTerminalState(r))
  /\ [][\A r \in Req : Finished(r) => Frozen(r)]_vars

C19_Witness ==
  /\ Finished(1)
  /\ Status(1) = 500
  /\ contact[1] # << >>
  /\ Len(calls[1]) = 2
  /\ Len(response[1]) = 1

(* C20: the collaborator calls made by one execution are a prefix of      *)
(* [store, staff send, submitter send]: each at most once, in that order, *)
(* and a 500 response follows such a prefix, possibly a non-empty one.    *)
CallOrder == << "store_contact", "send_email staff", "send_email reply" >>

IsCall(step) == \E i \in DOMAIN CallOrder : CallOrder[i] = step

Attempts(r) == SelectSeq(trace[r], IsCall)

IsPrefix(p, q) == Len(p) <= Len(q) /\ p = SubSeq(q, 1, Len(p))

Audiences(r) == [ i \in DOMAIN calls[r] |-> calls[r][i].audience ]

(* the boto3 calls the three steps can issue, in order; put_item is       *)
(* issued only when STORE_CONTACTS is on                                  *)
RequestOrder ==
  (IF STORE_CONTACTS THEN << "table" >> ELSE << >>) \o << "staff", "submitter" >>

C20_CallsArePrefix ==
  \A r \in Req :
    /\ IsPrefix(Attempts(r), CallOrder)
    /\ IsPrefix(Audiences(r), RequestOrder)
    /\ Len(Audiences(r)) <= Len(Attempts(r))
    /\ (Finished(r) /\ Status(r) = 200 /\ ~ IsOptions(event[r])) =>
          Attempts(r) = CallOrder

C20_Witness ==
  /\ Finished(1)
  /\ Status(1) = 500
  /\ Attempts(1) = << "store_contact", "send_email staff" >>
  /\ Audiences(1) = << "table", "staff" >>
  /\ calls[1][1].outcome = "ok"

(* C21: the email of every built record, the raw value trimmed and        *)
(* lower-cased, fully matches local@domain.tld over [a-z0-9._%+-@]; it    *)
(* holds no whitespace and none of & < > " ', although it is validated    *)
(* untrimmed and never sanitized, and it is the submitter recipient.      *)
LowerLetters == { LowerSeq[i] : i \in DOMAIN LowerSeq }

RecordEmailChars == LowerLetters \cup Digits \cup { ".", "_", "%", "+", "-", "@" }

RawEmail(r) == get(body[r][1], "email", Str(<< >>))

RecordEmail(r) == Flat(contact[r][1].email)

C21_RecordEmailIsClean ==
  \A r \in Req :
    contact[r] # << >> =>
      /\ EmailPattern(RecordEmail(r))
      /\ \A i \in DOMAIN RecordEmail(r) :
           /\ RecordEmail(r)[i] \in RecordEmailChars
           /\ RecordEmail(r)[i] \notin Whitespace \cup Special
      /\ contact[r][1].email = lower(strip(RawEmail(r).s))
      /\ sanitize_input(contact[r][1].email, StrLen(contact[r][1].email))
           = contact[r][1].email
      /\ \A i \in DOMAIN calls[r] :
           calls[r][i].audience = "submitter" =>
             calls[r][i].to = contact[r][1].email

C21_Witness ==
  /\ contact[1] # << >>
  /\ Flat(RawEmail(1).s) # RecordEmail(1)
  /\ RawEmail(1).s # strip(RawEmail(1).s)
  /\ strip(RawEmail(1).s) # lower(strip(RawEmail(1).s))
  /\ \E i \in DOMAIN calls[1] : calls[1][i].audience = "submitter"

====
